---- MODULE Spec2Model ----
(***************************************************************************)
(* MeshConnection of tarantool/mesh_connection.py: round-robin endpoint    *)
(* rotation, the refresh of the endpoint list through a stored procedure,  *)
(* the reconnect loop, and _send_request, which ties them to the dispatch  *)
(* of a request.  The base Connection class (connect, close, the request   *)
(* round trip) is the single-node client collaborator.                     *)
(***************************************************************************)
EXTENDS Integers, Sequences, FiniteSets, TLC

(***************************************************************************)
(* Bounds of the model.                                                    *)
(***************************************************************************)
MaxRespLen == 2      \* longest list a refresh response carries
MaxClusterLen == 1   \* longest cluster_list given to the constructor
MaxTime == 3         \* the clock runs 0..MaxTime (seconds)
AttemptCap == 8      \* the connect-attempt counter saturates here

\* nodes_refresh_interval, in milliseconds (constructor parameter)
nodes_refresh_interval == 1000

(***************************************************************************)
(* Values.  A string is a sequence of one-character strings.               *)
(***************************************************************************)
Addr(h, p) == [host |-> h, port |-> p]

\* Python's None, as parse_uri returns it
PyNone == [host |-> <<>>, port |-> 0]

A1 == Addr(<<"a">>, 1)
B2 == Addr(<<"b">>, 2)
A2 == Addr(<<"a">>, 2)

\* the nodes that may exist in the cluster
Endpoints == {A1, B2, A2}

Range(s) == {s[i] : i \in DOMAIN s}

(***************************************************************************)
(* Endpoint descriptors as a refresh response carries them: a string, or   *)
(* a {host, port} map.                                                     *)
(***************************************************************************)
Str(s) == [form |-> "str", str |-> s, host |-> <<>>, port |-> 0]
Map(h, p) == [form |-> "map", str |-> <<>>, host |-> h, port |-> p]

Descriptors ==
    { Str(<<"a", ":", "1">>),
      Str(<<"b", ":", "2">>),
      Str(<<"a", ":", "2">>),
      Str(<<"b">>),
      Map(<<"b">>, 2) }

RECURSIVE SeqsUpTo(_, _)
SeqsUpTo(S, n) ==
    IF n = 0 THEN {<<>>}
    ELSE LET shorter == SeqsUpTo(S, n - 1)
         IN  shorter \cup {Append(s, x) : s \in shorter, x \in S}

\* resp.data: <<>> (no data) or <<list>>, list the first returned value
Responses == {<<>>} \cup {<<l>> : l \in SeqsUpTo(Descriptors, MaxRespLen)}

(***************************************************************************)
(* parse_uri                                                               *)
(***************************************************************************)
HasColon(s) == \E i \in DOMAIN s : s[i] = ":"

FirstColon(s) == CHOOSE i \in DOMAIN s : s[i] = ":" /\ \A j \in 1..(i - 1) : s[j] # ":"

\* str.split(':')
RECURSIVE split(_)
split(s) ==
    IF ~HasColon(s) THEN <<s>>
    ELSE LET i == FirstColon(s)
         IN  <<SubSeq(s, 1, i - 1)>> \o split(SubSeq(s, i + 1, Len(s)))

Digits == {"0", "1", "2"}

DigitVal(c) == IF c = "0" THEN 0 ELSE IF c = "1" THEN 1 ELSE 2

\* int(s) raises ValueError
ValueError(s) == s = <<>> \/ \E i \in DOMAIN s : s[i] \notin Digits

RECURSIVE int(_)
int(s) ==
    IF s = <<>> THEN 0
    ELSE int(SubSeq(s, 1, Len(s) - 1)) * 10 + DigitVal(s[Len(s)])

parse_uri(d) ==
    IF d.form = "map"
    THEN PyNone                       \* ':' is not a key of the map
    ELSE IF d.str = <<>> \/ ~HasColon(d.str) THEN PyNone
    ELSE LET uri == split(d.str)
             h == uri[1]
         IN  IF ValueError(uri[2]) THEN PyNone
             ELSE IF h # <<>> /\ int(uri[2]) # 0
                  THEN Addr(h, int(uri[2]))
                  ELSE PyNone

ParseAll(l) == [i \in DOMAIN l |-> parse_uri(l[i])]

(***************************************************************************)
(* State                                                                   *)
(***************************************************************************)
VARIABLES
    addrs,                  \* self.strategy.addrs
    pos,                    \* self.strategy.pos
    host,                   \* self.host
    port,                   \* self.port
    connected,              \* self.connected
    last_nodes_refresh,     \* self.last_nodes_refresh
    get_nodes_function_name,\* configured (TRUE) or None (FALSE)
    nattempts,              \* local of _opt_refresh_instances
    resp,                   \* local of _opt_refresh_instances: resp.data once set
    pc,                     \* position inside _send_request
    ctx,                    \* which call of _opt_refresh_instances: "pre" | "post"
    up,                     \* the endpoints that accept connections and answer
    now,                    \* the clock, seconds
    result,                 \* what _send_request gave its caller
    first,                  \* outcome of the first dispatch of this call
    dispatches,             \* dispatches of the request in this call
    attempts,               \* connect attempts of the current reconnect loop
    rkind,                  \* what the refresh of this call did
    cycle,                  \* how the reconnect loop of this call ended
    old,                    \* the active endpoint when the call began
    lastRpc,                \* time and kind of the latest refresh remote call
    drawn,                  \* what getnext returned since the strategy was built
    args                    \* the arguments of __init__ while it runs

vars == <<addrs, pos, host, port, connected, last_nodes_refresh,
          get_nodes_function_name, nattempts, resp, pc, ctx, up, now,
          result, first, dispatches, attempts, rkind, cycle, old, lastRpc,
          drawn, args>>

Active == Addr(host, port)

NoResult == [kind |-> "none", node |-> PyNone]

NoRpc == [time |-> -1, kind |-> "none"]

NoResp == [set |-> FALSE, data |-> <<>>]

NoOld == [addr |-> PyNone, connected |-> FALSE]

NoArgs == [host |-> <<>>, port |-> 0, cluster_list |-> <<>>]

(***************************************************************************)
(* RoundRobinStrategy                                                      *)
(***************************************************************************)
\* the element getnext returns
\* the element after the cursor moved
getnextAfter(a, p) == a[((p + 1) % Len(a)) + 1]

getnext(a, p) == a[p + 1]

\* the cursor getnext leaves
nextpos(a, p) == (p + 1) % Len(a)

(***************************************************************************)
(* MeshConnection.__init__                                                 *)
(***************************************************************************)
RECURSIVE ClusterAddrs(_, _, _)
ClusterAddrs(h, p, cl) ==
    IF cl = <<>> THEN <<>>
    ELSE IF cl[1].host = h \/ cl[1].port = p
         THEN ClusterAddrs(h, p, Tail(cl))
         ELSE <<cl[1]>> \o ClusterAddrs(h, p, Tail(cl))

InitAddrs(h, p, cl) == <<Addr(h, p)>> \o ClusterAddrs(h, p, cl)

Init ==
    \E prim \in Endpoints, cl \in SeqsUpTo(Endpoints, MaxClusterLen),
       fn \in BOOLEAN, connect_now \in BOOLEAN, u \in SUBSET Endpoints :
        /\ connect_now => prim \in u
        /\ addrs = InitAddrs(prim.host, prim.port, cl)
        /\ pos = nextpos(InitAddrs(prim.host, prim.port, cl), 0)
        /\ host = getnext(InitAddrs(prim.host, prim.port, cl), 0).host
        /\ port = getnext(InitAddrs(prim.host, prim.port, cl), 0).port
        /\ connected = connect_now
        /\ last_nodes_refresh = 0
        /\ get_nodes_function_name = fn
        /\ nattempts = 0
        /\ resp = NoResp
        /\ pc = "idle"
        /\ ctx = "pre"
        /\ up = u
        /\ now = 0
        /\ result = NoResult
        /\ first = "none"
        /\ dispatches = 0
        /\ attempts = 0
        /\ rkind = "none"
        /\ cycle = "none"
        /\ old = NoOld
        /\ lastRpc = NoRpc
        /\ drawn = <<>>
        /\ args = NoArgs

(***************************************************************************)
(* The single-node client (base class Connection)                          *)
(***************************************************************************)
\* connect(host, port) succeeds
ClientConnects(h, p) == Addr(h, p) \in up

\* self.connected after close()
ClientClosed == FALSE

\* outcomes of a request round trip on the endpoint (h, p)
ClientOutcomes(h, p) ==
    IF Addr(h, p) \in up THEN {"Response", "DatabaseError"} ELSE {"NetworkError"}

(***************************************************************************)
(* MeshConnection._opt_refresh_instances                                   *)
(***************************************************************************)
\* an exception leaves _opt_refresh_instances: at line 204 it leaves
\* _send_request too; at line 210 the finally clause runs next
Raise(exc) ==
    IF ctx = "pre"
    THEN /\ pc' = "done"
         /\ result' = [kind |-> exc, node |-> PyNone]
    ELSE /\ pc' = "finally"
         /\ UNCHANGED result

\* _opt_refresh_instances returns
ReturnTo == IF ctx = "pre" THEN "try" ELSE "finally"

\* the refresh decided on the clock alone
DueUnconnected(t) ==
    (t - last_nodes_refresh) * 1000 > nodes_refresh_interval

Due(t) ==
    connected /\ (t - last_nodes_refresh) * 1000 > nodes_refresh_interval

GotData(r) == r # <<>> /\ r[1] # <<>>

\* the response order lost
RefreshedAddrsReversed(r) ==
    [i \in DOMAIN r[1] |-> parse_uri(r[1][Len(r[1]) + 1 - i])]

RefreshedAddrs(r) == ParseAll(r[1])

\* the cursor of a new RoundRobinStrategy
StartPos == 0

\* the refresh time advanced whatever the response
NewLastRefreshAlways(got, t) == t

\* the refresh time never advanced
NewLastRefreshNever(got, t) == last_nodes_refresh

NewLastRefresh(got, t) == IF got THEN t ELSE last_nodes_refresh

\* the membership test left out
EvictedNever(a) == FALSE

Evicted(a) == Active \notin Range(a)

RefreshWith(r) ==
    LET got == GotData(r)
        a1 == IF got THEN RefreshedAddrs(r) ELSE addrs
        p1 == IF got THEN StartPos ELSE pos
        addr == getnext(a1, p1)
    IN  /\ resp' = [set |-> TRUE, data |-> r]
        /\ lastRpc' = [time |-> now, kind |-> IF got THEN "data" ELSE "empty"]
        /\ last_nodes_refresh' = NewLastRefresh(got, now)
        /\ IF ~got
           THEN \* line 166 reads the unbound local addrs
                /\ rkind' = "empty"
                /\ UNCHANGED <<addrs, pos, host, port, connected>>
                /\ Raise("UnboundLocalError")
           ELSE IF ~Evicted(a1)
           THEN /\ rkind' = "keep"
                /\ addrs' = a1
                /\ pos' = p1
                /\ UNCHANGED <<host, port, connected, result>>
                /\ pc' = "reconnect"
           ELSE IF addr = PyNone
           THEN \* addr['host'] on None
                /\ rkind' = "evict"
                /\ addrs' = a1
                /\ pos' = nextpos(a1, p1)
                /\ UNCHANGED <<host, port, connected>>
                /\ Raise("TypeError")
           ELSE /\ rkind' = "evict"
                /\ addrs' = a1
                /\ pos' = nextpos(a1, p1)
                /\ host' = addr.host
                /\ port' = addr.port
                /\ connected' = ClientClosed
                /\ UNCHANGED result
                /\ pc' = "reconnect"

\* lines 154-170
OptRefreshInstances ==
    /\ pc = "opt_refresh"
    /\ IF Due(now)
       THEN \/ /\ Active \in up
               /\ \E r \in Responses : RefreshWith(r)
            \/ /\ "NetworkError" \in ClientOutcomes(host, port)
               /\ rkind' = "neterr"
               /\ lastRpc' = [time |-> now, kind |-> "neterr"]
               /\ Raise("NetworkError")
               /\ UNCHANGED <<addrs, pos, host, port, connected,
                              last_nodes_refresh, resp>>
            \/ /\ "DatabaseError" \in ClientOutcomes(host, port)
               /\ rkind' = "dberr"
               /\ lastRpc' = [time |-> now, kind |-> "dberr"]
               /\ Raise("DatabaseError")
               /\ UNCHANGED <<addrs, pos, host, port, connected,
                              last_nodes_refresh, resp>>
       ELSE /\ pc' = "reconnect"
            /\ UNCHANGED <<addrs, pos, host, port, connected,
                           last_nodes_refresh, resp, result, rkind, lastRpc>>
    /\ UNCHANGED <<get_nodes_function_name, nattempts, ctx, up, now, first,
                   dispatches, attempts, cycle, old>>
    /\ UNCHANGED <<drawn, args>>

Budget(a) == (Len(a) * 2) + 1

\* lines 172-174
ReconnectEnter ==
    /\ pc = "reconnect"
    /\ IF ~connected
       THEN /\ nattempts' = Budget(addrs)
            /\ attempts' = 0
            /\ cycle' = "running"
            /\ pc' = "loop"
       ELSE /\ pc' = ReturnTo
            /\ UNCHANGED <<nattempts, attempts, cycle>>
    /\ UNCHANGED <<addrs, pos, host, port, connected, last_nodes_refresh,
                   get_nodes_function_name, resp, ctx, up, now, result, first,
                   dispatches, rkind, old, lastRpc>>
    /\ UNCHANGED <<drawn, args>>

\* nattempts after a connect attempt that raised NetworkError (lines 186-187)
AfterFailedConnect(n) == n

\* one pass of the while loop, lines 176-189
ReconnectLoop ==
    /\ pc = "loop"
    /\ IF nattempts >= 0
       THEN LET addr == getnext(addrs, pos)
            IN  /\ pos' = nextpos(addrs, pos)
                /\ IF addr = PyNone
                   THEN \* addr['host'] on None: not a NetworkError
                        /\ cycle' = "typeerror"
                        /\ Raise("TypeError")
                        /\ UNCHANGED <<host, port, connected, nattempts, attempts>>
                   ELSE IF addr.host # host \/ addr.port # port
                   THEN /\ host' = addr.host
                        /\ port' = addr.port
                        /\ attempts' = IF attempts < AttemptCap THEN attempts + 1 ELSE attempts
                        /\ IF ClientConnects(addr.host, addr.port)
                           THEN /\ connected' = TRUE
                                /\ cycle' = "connected"
                                /\ pc' = ReturnTo
                                /\ UNCHANGED nattempts
                           ELSE /\ nattempts' = AfterFailedConnect(nattempts)
                                /\ pc' = "loop"
                                /\ UNCHANGED <<connected, cycle>>
                        /\ UNCHANGED result
                   ELSE /\ nattempts' = nattempts - 1
                        /\ pc' = "loop"
                        /\ UNCHANGED <<host, port, connected, attempts, cycle, result>>
       ELSE /\ cycle' = "exhausted"
            /\ Raise("NetworkError")
            /\ UNCHANGED <<pos, host, port, connected, nattempts, attempts>>
    /\ UNCHANGED <<addrs, last_nodes_refresh, get_nodes_function_name, resp,
                   ctx, up, now, first, dispatches, rkind, old, lastRpc>>
    /\ UNCHANGED <<drawn, args>>

(***************************************************************************)
(* MeshConnection._send_request                                            *)
(***************************************************************************)
\* lines 203-204
SendRequestEnter ==
    /\ pc = "idle"
    /\ old' = [addr |-> Active, connected |-> connected]
    /\ ctx' = "pre"
    /\ pc' = IF get_nodes_function_name THEN "opt_refresh" ELSE "try"
    /\ UNCHANGED <<addrs, pos, host, port, connected, last_nodes_refresh,
                   get_nodes_function_name, nattempts, resp, up, now, result,
                   first, dispatches, attempts, rkind, cycle, lastRpc>>
    /\ UNCHANGED <<drawn, args>>

\* lines 206-210: the first dispatch and the except clause
TrySend ==
    /\ pc = "try"
    /\ dispatches' = dispatches + 1
    /\ \E o \in ClientOutcomes(host, port) :
        /\ first' = o
        /\ IF o = "NetworkError"
           THEN /\ connected' = FALSE
                /\ ctx' = "post"
                /\ pc' = "opt_refresh"
           ELSE /\ connected' = TRUE
                /\ pc' = "finally"
                /\ UNCHANGED ctx
    /\ UNCHANGED <<addrs, pos, host, port, last_nodes_refresh,
                   get_nodes_function_name, nattempts, resp, up, now, result,
                   attempts, rkind, cycle, old, lastRpc>>
    /\ UNCHANGED <<drawn, args>>

\* lines 211-212: the finally clause returns a second dispatch
FinallySend ==
    /\ pc = "finally"
    /\ dispatches' = dispatches + 1
    /\ \E o \in ClientOutcomes(host, port) :
        /\ result' = [kind |-> o,
                      node |-> IF o = "NetworkError" THEN PyNone ELSE Active]
        /\ connected' = IF o = "NetworkError" THEN connected ELSE TRUE
    /\ pc' = "done"
    /\ UNCHANGED <<addrs, pos, host, port, last_nodes_refresh,
                   get_nodes_function_name, nattempts, resp, ctx, up, now,
                   first, attempts, rkind, cycle, old, lastRpc>>
    /\ UNCHANGED <<drawn, args>>

\* the caller has the outcome; the locals of the call are gone
Return ==
    /\ pc = "done"
    /\ pc' = "idle"
    /\ nattempts' = 0
    /\ resp' = NoResp
    /\ ctx' = "pre"
    /\ result' = NoResult
    /\ first' = "none"
    /\ dispatches' = 0
    /\ attempts' = 0
    /\ rkind' = "none"
    /\ cycle' = "none"
    /\ old' = NoOld
    /\ UNCHANGED <<addrs, pos, host, port, connected, last_nodes_refresh,
                   get_nodes_function_name, up, now, lastRpc>>
    /\ UNCHANGED <<drawn, args>>

(***************************************************************************)
(* Environment, between calls                                              *)
(***************************************************************************)
Tick ==
    /\ pc = "idle"
    /\ now < MaxTime
    /\ now' = now + 1
    /\ UNCHANGED <<addrs, pos, host, port, connected, last_nodes_refresh,
                   get_nodes_function_name, nattempts, resp, pc, ctx, up,
                   result, first, dispatches, attempts, rkind, cycle, old,
                   lastRpc>>
    /\ UNCHANGED <<drawn, args>>

NodeChange ==
    /\ pc = "idle"
    /\ \E e \in Endpoints :
        up' = IF e \in up THEN up \ {e} ELSE up \cup {e}
    /\ UNCHANGED <<addrs, pos, host, port, connected, last_nodes_refresh,
                   get_nodes_function_name, nattempts, resp, pc, ctx, now,
                   result, first, dispatches, attempts, rkind, cycle, old,
                   lastRpc>>
    /\ UNCHANGED <<drawn, args>>

Step ==
    \/ SendRequestEnter
    \/ OptRefreshInstances
    \/ ReconnectEnter
    \/ ReconnectLoop
    \/ TrySend
    \/ FinallySend
    \/ Return

Next ==
    \/ SendRequestEnter
    \/ OptRefreshInstances
    \/ ReconnectEnter
    \/ ReconnectLoop
    \/ TrySend
    \/ FinallySend
    \/ Return
    \/ Tick
    \/ NodeChange

Spec == Init /\ [][Next]_vars

\* the calling thread keeps running while a call is in progress
FairSpec == Init /\ [][Next]_vars /\ WF_vars(Step)

(***************************************************************************)
(* The constructor and the strategy on their own: __init__ from its        *)
(* arguments, a strategy built from a parsed list, and getnext calls.      *)
(***************************************************************************)
UnitInit ==
    \E prim \in Endpoints, cl \in SeqsUpTo(Endpoints, MaxClusterLen) :
        /\ args = [host |-> prim.host, port |-> prim.port, cluster_list |-> cl]
        /\ pc = "new"
        /\ addrs = <<>>
        /\ pos = 0
        /\ host = <<>>
        /\ port = 0
        /\ drawn = <<>>
        /\ connected = FALSE
        /\ last_nodes_refresh = 0
        /\ get_nodes_function_name = FALSE
        /\ nattempts = 0
        /\ resp = NoResp
        /\ ctx = "pre"
        /\ up = {}
        /\ now = 0
        /\ result = NoResult
        /\ first = "none"
        /\ dispatches = 0
        /\ attempts = 0
        /\ rkind = "none"
        /\ cycle = "none"
        /\ old = NoOld
        /\ lastRpc = NoRpc

\* lines 122-133
Construct ==
    /\ pc = "new"
    /\ LET a == InitAddrs(args.host, args.port, args.cluster_list)
           addr == getnext(a, StartPos)
       IN  /\ addrs' = a
           /\ pos' = nextpos(a, StartPos)
           /\ host' = addr.host
           /\ port' = addr.port
           /\ drawn' = <<addr>>
    /\ pc' = "built"
    /\ UNCHANGED <<connected, last_nodes_refresh, get_nodes_function_name,
                   nattempts, resp, ctx, up, now, result, first, dispatches,
                   attempts, rkind, cycle, old, lastRpc, args>>

\* lines 162-163: strategy_class(addrs) on a parsed response
NewStrategy ==
    /\ pc \in {"built", "rebuilt"}
    /\ \E r \in Responses :
        /\ GotData(r)
        /\ addrs' = RefreshedAddrs(r)
    /\ pos' = StartPos
    /\ drawn' = <<>>
    /\ pc' = "rebuilt"
    /\ UNCHANGED <<host, port, connected, last_nodes_refresh,
                   get_nodes_function_name, nattempts, resp, ctx, up, now,
                   result, first, dispatches, attempts, rkind, cycle, old,
                   lastRpc, args>>

\* lines 32-35, for two laps
GetNextCall ==
    /\ pc \in {"built", "rebuilt"}
    /\ Len(drawn) < 2 * Len(addrs)
    /\ drawn' = Append(drawn, getnext(addrs, pos))
    /\ pos' = nextpos(addrs, pos)
    /\ UNCHANGED <<addrs, host, port, connected, last_nodes_refresh,
                   get_nodes_function_name, nattempts, resp, pc, ctx, up, now,
                   result, first, dispatches, attempts, rkind, cycle, old,
                   lastRpc, args>>

UnitNext ==
    \/ Construct
    \/ NewStrategy
    \/ GetNextCall

UnitSpec == UnitInit /\ [][UnitNext]_vars

(***************************************************************************)
(* Properties                                                              *)
(***************************************************************************)
\* every member of the endpoint set refuses connections
AllDown == \A i \in DOMAIN addrs : addrs[i] \notin up

\* the endpoint set holds endpoints only, each once
ProperSet == PyNone \notin Range(addrs) /\ Cardinality(Range(addrs)) = Len(addrs)

\* the 'host:port' string of an endpoint with a one-digit port
Format(e) ==
    e.host \o <<":">> \o
    <<IF e.port = 0 THEN "0" ELSE IF e.port = 1 THEN "1" ELSE "2">>

\* the pre-call _opt_refresh_instances has returned or raised
RefreshStepOver == pc = "try" \/ (pc = "done" /\ dispatches = 0)

\* this step performs the refresh remote call
RpcStep == pc = "opt_refresh" /\ rkind = "none" /\ rkind' # "none"

WithinInterval == (now - lastRpc.time) * 1000 <= nodes_refresh_interval

\* C1: with every endpoint of the set unreachable, a reconnect loop that has
\* started ends, and ends with NetworkError (budget exhausted).
ClaimC1 == (pc = "loop" /\ AllDown /\ ProperSet) ~> (cycle = "exhausted")

\* C2: during a reconnect loop over N endpoints no more than 2N+1 connect
\* attempts are made.
ClaimC2 == cycle = "running" => attempts <= 2 * Len(addrs) + 1

\* C3: when the refresh step is over after a response that omitted the active
\* endpoint and whose set holds a reachable endpoint, the session is connected
\* and its active endpoint is a member of the new set, not the old endpoint.
ClaimC3 ==
    (/\ rkind = "evict"
     /\ RefreshStepOver
     /\ ProperSet
     /\ \E i \in DOMAIN addrs : addrs[i] \in up)
    => (/\ connected
        /\ Active \in Range(addrs)
        /\ Active # old.addr)

\* C4: a call that began connected to an unreachable member of the set, with
\* another member reachable, ends with a reachable member active and with the
\* answer of that node, not with NetworkError.
ClaimC4 ==
    (/\ pc = "done"
     /\ old.connected
     /\ old.addr \in Range(addrs)
     /\ old.addr \notin up
     /\ ProperSet
     /\ \E i \in DOMAIN addrs : addrs[i] \in up)
    => (/\ result.kind \in {"Response", "DatabaseError"}
        /\ result.node = Active
        /\ Active \in up
        /\ Active \in Range(addrs))

\* C5: a refresh whose response holds the active endpoint installs the
\* endpoints of the response in response order with the cursor at 0 (as many
\* as the response lists), leaves host, port and the connection as they were,
\* and the call is then answered by that same node.
ClaimC5 ==
    /\ [][(pc = "opt_refresh" /\ rkind' = "keep") =>
            (/\ Len(addrs') = Len(resp'.data[1])
             /\ \A i \in DOMAIN addrs' : \A e \in Endpoints :
                    resp'.data[1][i] = Str(Format(e)) => addrs'[i] = e
             /\ pos' = 0
             /\ host' = host
             /\ port' = port
             /\ connected' = connected)]_vars
    /\ []((pc = "done" /\ rkind = "keep") =>
            (/\ Active = old.addr
             /\ connected
             /\ result.kind \in {"Response", "DatabaseError"}
             /\ result.node = old.addr))

WitnessC5 ==
    /\ pc = "done"
    /\ rkind = "keep"
    /\ addrs = <<B2, A1>>
    /\ pos = 0
    /\ Active = A1
    /\ result = [kind |-> "Response", node |-> A1]

\* C6: a refresh whose response has no data or an empty first result leaves
\* the endpoint set, the cursor, host, port, the connection and
\* last_nodes_refresh as they were.
ClaimC6 ==
    [][(pc = "opt_refresh" /\ rkind' = "empty") =>
         (/\ addrs' = addrs
          /\ pos' = pos
          /\ host' = host
          /\ port' = port
          /\ connected' = connected
          /\ last_nodes_refresh' = last_nodes_refresh)]_vars

WitnessC6 ==
    /\ rkind = "empty"
    /\ resp = [set |-> TRUE, data |-> << <<>> >>]
    /\ last_nodes_refresh < now

\* C7: after a refresh whose response has no data or an empty first result,
\* the call raises nothing from the refresh: the request is dispatched and the
\* call ends with the node's answer.
ClaimC7 ==
    (pc = "done" /\ rkind = "empty")
    => (dispatches >= 1 /\ result.kind \in {"Response", "DatabaseError"})

\* C8 as stated: no refresh remote call is made within the refresh interval
\* of an earlier one that was answered, with a list or with an empty result.
OriginalC8 ==
    [][(RpcStep /\ lastRpc.kind \in {"data", "empty"}) => ~WithinInterval]_vars

\* C8, amended: no refresh remote call is made within the refresh interval of
\* an earlier one that was answered with a non-empty list.
ClaimC8 ==
    [][(RpcStep /\ lastRpc.kind = "data") => ~WithinInterval]_vars

\* a second refresh check within the interval of an answered refresh, on a
\* connected session, that made no remote call
WitnessC8 ==
    /\ pc = "reconnect"
    /\ ctx = "pre"
    /\ connected
    /\ rkind = "none"
    /\ lastRpc.kind = "data"
    /\ WithinInterval

\* C9: a call whose first dispatch ended with DatabaseError dispatches the
\* request once, starts no reconnect loop and ends with DatabaseError.
ClaimC9 ==
    (pc = "done" /\ first = "DatabaseError")
    => (dispatches = 1 /\ cycle = "none" /\ result.kind = "DatabaseError")

\* C10: when the reconnect loop started after a NetworkError of the dispatch
\* exhausts its budget, the call ends with NetworkError and the request is
\* not dispatched again.
ClaimC10 ==
    (pc = "done" /\ ctx = "post" /\ cycle = "exhausted")
    => (result.kind = "NetworkError" /\ dispatches = 1)

\* C11: the refresh remote call is made only when a refresh procedure name is
\* configured, the session is connected and more than the refresh interval
\* has passed since last_nodes_refresh.
ClaimC11 ==
    [][RpcStep =>
         (/\ get_nodes_function_name
          /\ connected
          /\ (now - last_nodes_refresh) * 1000 > nodes_refresh_interval)]_vars

WitnessC11 ==
    /\ pc = "reconnect"
    /\ rkind = "keep"
    /\ lastRpc = [time |-> now, kind |-> "data"]

\* C12: a call whose refresh remote call ended with NetworkError still
\* dispatches the request; the refresh error is not the outcome of the call.
ClaimC12 ==
    (pc = "done" /\ rkind = "neterr") => dispatches >= 1

\* C14: a connect attempt of the reconnect loop that fails with NetworkError
\* leaves host and port as they were before the attempt.
ClaimC14 ==
    [][(pc = "loop" /\ pc' = "loop" /\ nattempts' = nattempts) =>
         (host' = host /\ port' = port)]_vars

\* the endpoints a descriptor may denote
AllAddrs == {Addr(<<h>>, p) : h \in {"a", "b"}, p \in 1..2}

\* a descriptor in one of the two accepted forms
WellFormed(d) ==
    IF d.form = "map"
    THEN Addr(d.host, d.port) \in AllAddrs
    ELSE \E e \in AllAddrs : d.str = Format(e)

\* the endpoint a well-formed descriptor denotes
Denoted(d) ==
    IF d.form = "map"
    THEN Addr(d.host, d.port)
    ELSE CHOOSE e \in AllAddrs : d.str = Format(e)

\* one endpoint per well-formed descriptor, in order
RECURSIVE Expected(_)
Expected(l) ==
    IF l = <<>> THEN <<>>
    ELSE IF WellFormed(l[1])
         THEN <<Denoted(l[1])>> \o Expected(Tail(l))
         ELSE Expected(Tail(l))

\* C15: a refresh with a non-empty response installs exactly one endpoint per
\* well-formed descriptor ('host:port' string or {host, port} map) in response
\* order; a malformed descriptor adds nothing and raises nothing.
ClaimC15 ==
    [][(pc = "opt_refresh" /\ rkind' \in {"keep", "evict"}) =>
         (/\ addrs' = Expected(resp'.data[1])
          /\ result'.kind # "TypeError")]_vars

\* C16: the endpoint set never holds the same endpoint twice.
ClaimC16 ==
    \A i, j \in DOMAIN addrs :
        (i # j /\ addrs[i] # PyNone) => addrs[i] # addrs[j]

\* C17: right after a connect that succeeded and right after a refresh that
\* completed, the active endpoint is a member of the endpoint set.
ClaimC17 ==
    /\ Active \in Range(addrs)
    /\ [][((~connected /\ connected') \/
            (pc = "opt_refresh" /\ rkind' = "keep")) =>
             Addr(host', port') \in Range(addrs')]_vars

\* a refresh that evicted the active endpoint and reconnected elsewhere
WitnessC17 ==
    /\ pc = "try"
    /\ rkind = "evict"
    /\ cycle = "connected"
    /\ connected
    /\ Active # old.addr
    /\ Active \in Range(addrs)

\* C18: a call whose first dispatch returned a Response dispatches the
\* request once and returns a Response.
ClaimC18 ==
    (pc = "done" /\ first = "Response")
    => (dispatches = 1 /\ result.kind = "Response")

\* C19: a reconnect loop over a set with a member that accepts connections
\* ends with the session connected to a reachable member.
ClaimC19 ==
    (/\ cycle \notin {"none", "running"}
     /\ ProperSet
     /\ \E i \in DOMAIN addrs : addrs[i] \in up)
    => (/\ cycle = "connected"
        /\ connected
        /\ Active \in up
        /\ Active \in Range(addrs))

\* C13: on a freshly built strategy over N distinct endpoints the k-th
\* getnext returns the endpoint at position (k-1) mod N: the first N calls
\* give each endpoint once in insertion order and the next N repeat them.
ClaimC13 ==
    (pc \in {"built", "rebuilt"} /\ ProperSet)
    => \A k \in DOMAIN drawn : drawn[k] = addrs[((k - 1) % Len(addrs)) + 1]

WitnessC13 ==
    /\ pc = "rebuilt"
    /\ addrs = <<B2, A1>>
    /\ drawn = <<B2, A1, B2, A1>>
    /\ pos = 0

\* an entry of cluster_list that is not the primary (host, port) pair
NotPrimary(e) == e # Addr(args.host, args.port)

\* C20: after construction the endpoint set is the primary followed, in
\* order, by every cluster_list entry that differs from the primary as a
\* (host, port) pair, and the active endpoint is the primary.
ClaimC20 ==
    pc = "built"
    => (/\ addrs = <<Addr(args.host, args.port)>>
                   \o SelectSeq(args.cluster_list, NotPrimary)
        /\ Active = Addr(args.host, args.port))

====
